---- MODULE Spec2Model ----
(***************************************************************************)
(* A/B test analysis script (notebooks/ab_test_analysis.py).               *)
(*                                                                         *)
(* The script is one top-to-bottom pass: load two tables, clean the        *)
(* interaction table, left-merge the country table, aggregate, run three   *)
(* hypothesis tests and a power analysis.  Each top-level block of the     *)
(* script is one action; pc is the position of the script.                 *)
(*                                                                         *)
(* A DataFrame is a sequence of records.  An interaction row carries its   *)
(* pandas index label (idx, the position in the file), which boolean       *)
(* indexing, sort_values and drop_duplicates keep and merge resets.        *)
(* Real numbers are kept exact: a rate or a squared statistic is a pair    *)
(* <<numerator, denominator>>, and NaN / inf are the strings "nan"/"inf".  *)
(***************************************************************************)
EXTENDS Integers, Sequences, FiniteSets, TLC

VARIABLES
    pc,                       \* position of the script
    df,                       \* interaction table (reassigned by the cleaning steps)
    countries_df,             \* country table, never reassigned
    control_with_new,         \* line 114
    treatment_with_old,       \* line 115
    multi_group_users,        \* line 143
    df_merged,                \* line 164, reassigned at line 181
    missing_countries,        \* line 174
    group_conversion,         \* line 197
    country_conversion,       \* line 203
    group_country_conversion, \* line 209
    ran,                      \* the hypothesis tests that have been run
    primary,                  \* the variables the primary test writes (lines 319-332)
    chi,                      \* the variables the country test writes (lines 357-358)
    countries,                \* line 388
    next_country,             \* position of the iterator of the loop of line 391
    interaction_results,      \* line 389, filled by the loop of line 391
    power_vars                \* the variables of the power analysis (lines 458-474)

vars == <<pc, df, countries_df, control_with_new, treatment_with_old,
          multi_group_users, df_merged, missing_countries, group_conversion,
          country_conversion, group_country_conversion, ran, primary, chi,
          countries, next_country, interaction_results, power_vars>>

-----------------------------------------------------------------------------
(* Bounds of the model and the value sets of the columns.                  *)

MaxRows == 2
MaxCountryRows == 2
MaxCleanRows == 4
MaxOrderRows == 3
MaxRepeatRows == 4

UserIds == {1, 2}
Timestamps == {1, 2}
Groups == {"control", "treatment"}
Pages == {"old_page", "new_page"}
Outcomes == {0, 1}
CountryCodes == {"US", "UK"}
\* A missing value of a string column.
NaN == "nan"

\* The value of a variable the script has not assigned yet.
None == [unassigned |-> TRUE]

-----------------------------------------------------------------------------
(* Sequences.                                                              *)

SeqsUpTo(S, n) == UNION {[1..k -> S] : k \in 0..n}

RECURSIVE SumSeq(_)
SumSeq(s) == IF s = <<>> THEN 0 ELSE Head(s) + SumSeq(Tail(s))

RECURSIVE SumOver(_, _)
SumOver(S, f) ==
    IF S = {} THEN 0
    ELSE LET x == CHOOSE y \in S : TRUE IN f[x] + SumOver(S \ {x}, f)

RECURSIVE FlattenSeq(_)
FlattenSeq(ss) == IF ss = <<>> THEN <<>> ELSE Head(ss) \o FlattenSeq(Tail(ss))

\* Series.unique(): the distinct values in order of first appearance.
RECURSIVE Unique(_)
Unique(s) ==
    IF s = <<>> THEN <<>>
    ELSE LET init == Unique(SubSeq(s, 1, Len(s) - 1))
             x == s[Len(s)]
         IN IF \E i \in 1..Len(init) : init[i] = x THEN init ELSE Append(init, x)

Column(table, col) == [i \in 1..Len(table) |-> table[i][col]]

Range(s) == {s[i] : i \in 1..Len(s)}

-----------------------------------------------------------------------------
(* The tables as loaded (lines 44-45).                                     *)

RawRows ==
    [user_id : UserIds, timestamp : Timestamps, group : Groups,
     landing_page : Pages, converted : Outcomes]

CountryRows == [user_id : UserIds, country : CountryCodes]

\* read_csv gives row i of the file the index label i.
WithIndex(rows) ==
    [i \in 1..Len(rows) |->
        [idx |-> i, user_id |-> rows[i].user_id, timestamp |-> rows[i].timestamp,
         group |-> rows[i].group, landing_page |-> rows[i].landing_page,
         converted |-> rows[i].converted]]

-----------------------------------------------------------------------------
(* Ensuring test integrity (lines 114-131).                                *)

IsControlWithNew(r) == r.group = "control" /\ r.landing_page = "new_page"

IsTreatmentWithOld(r) == r.group = "treatment" /\ r.landing_page = "old_page"

IsAligned(r) ==
    \/ r.group = "control" /\ r.landing_page = "old_page"
    \/ r.group = "treatment" /\ r.landing_page = "new_page"

HasInconsistencyBoth(cwn, two) == cwn > 0 /\ two > 0

HasInconsistency(cwn, two) == cwn > 0 \/ two > 0

PageGroupFilter ==
    /\ pc = "consistency"
    /\ control_with_new' = Len(SelectSeq(df, IsControlWithNew))
    /\ treatment_with_old' = Len(SelectSeq(df, IsTreatmentWithOld))
    /\ df' = IF HasInconsistency(control_with_new', treatment_with_old')
             THEN SelectSeq(df, IsAligned)
             ELSE df
    /\ pc' = "multigroup"
    /\ UNCHANGED <<countries_df, multi_group_users, df_merged, missing_countries,
                   group_conversion, country_conversion, group_country_conversion,
                   ran, primary, chi, countries, next_country, interaction_results,
                   power_vars>>

-----------------------------------------------------------------------------
(* Preventing user duplication (lines 142-154).                            *)

RowsOf(table, u) == {i \in 1..Len(table) : table[i].user_id = u}

\* df.groupby('user_id')['group'].nunique()
UserGroups(table) ==
    [u \in Range(Column(table, "user_id")) |->
        Cardinality({table[i].group : i \in RowsOf(table, u)})]

UsersInMultipleGroups(table) ==
    {u \in DOMAIN UserGroups(table) : UserGroups(table)[u] > 1}

\* sort_values('timestamp') sorts ascending with the default kind (quicksort),
\* which is not stable: rows with equal timestamps come out in any order.
SortValues(table) ==
    {[i \in 1..Len(table) |-> table[p[i]]] :
        p \in {q \in Permutations(1..Len(table)) :
                 \A i, j \in 1..Len(table) :
                    i < j => table[q[i]].timestamp <= table[q[j]].timestamp}}

RECURSIVE Pick(_, _, _)
Pick(table, keep, i) ==
    IF i > Len(table) THEN <<>>
    ELSE (IF i \in keep THEN <<table[i]>> ELSE <<>>) \o Pick(table, keep, i + 1)

DropDuplicatesByUserAndGroup(table) ==
    Pick(table,
         {i \in 1..Len(table) :
            \A j \in 1..(i - 1) :
               table[j].user_id # table[i].user_id \/ table[j].group # table[i].group},
         1)

DropDuplicatesKeepLast(table) ==
    Pick(table,
         {i \in 1..Len(table) :
            \A j \in (i + 1)..Len(table) : table[j].user_id # table[i].user_id},
         1)

\* drop_duplicates(subset='user_id', keep='first')
DropDuplicates(table) ==
    Pick(table,
         {i \in 1..Len(table) :
            \A j \in 1..(i - 1) : table[j].user_id # table[i].user_id},
         1)

MultiGroupRemoval ==
    /\ pc = "multigroup"
    /\ multi_group_users' = Cardinality(UsersInMultipleGroups(df))
    /\ IF multi_group_users' > 0
       THEN \E sorted \in SortValues(df) : df' = DropDuplicates(sorted)
       ELSE df' = df
    /\ pc' = "merge"
    /\ UNCHANGED <<countries_df, control_with_new, treatment_with_old, df_merged,
                   missing_countries, group_conversion, country_conversion,
                   group_country_conversion, ran, primary, chi, countries,
                   next_country, interaction_results, power_vars>>

-----------------------------------------------------------------------------
(* Combining datasets (lines 164-182).                                     *)

JoinRow(r, c) ==
    [user_id |-> r.user_id, timestamp |-> r.timestamp, group |-> r.group,
     landing_page |-> r.landing_page, converted |-> r.converted, country |-> c]

\* The country rows of one user key, in table order.
CountriesOf(right, u) ==
    LET Match(c) == c.user_id = u IN Column(SelectSeq(right, Match), "country")

\* left.merge(right, on='user_id', how='left'): every left row, in order, once per
\* matching right row, or once with a missing country when none matches.
LeftMerge(left, right) ==
    FlattenSeq([i \in 1..Len(left) |->
        LET cs == CountriesOf(right, left[i].user_id)
        IN IF cs = <<>>
           THEN <<JoinRow(left[i], NaN)>>
           ELSE [k \in 1..Len(cs) |-> JoinRow(left[i], cs[k])]])

Merge ==
    /\ pc = "merge"
    /\ df_merged' = LeftMerge(df, countries_df)
    /\ pc' = "dropna"
    /\ UNCHANGED <<df, countries_df, control_with_new, treatment_with_old,
                   multi_group_users, missing_countries, group_conversion,
                   country_conversion, group_country_conversion, ran, primary, chi,
                   countries, next_country, interaction_results, power_vars>>

CountryIsNull(r) == r.country = NaN

CountryAny(r) == r.country = r.country

CountryNotNull(r) == r.country # NaN

DropMissingCountries ==
    /\ pc = "dropna"
    /\ missing_countries' = Len(SelectSeq(df_merged, CountryIsNull))
    /\ df_merged' = IF missing_countries' > 0
                    THEN SelectSeq(df_merged, CountryNotNull)
                    ELSE df_merged
    /\ pc' = "describe"
    /\ UNCHANGED <<df, countries_df, control_with_new, treatment_with_old,
                   multi_group_users, group_conversion, country_conversion,
                   group_country_conversion, ran, primary, chi, countries,
                   next_country, interaction_results, power_vars>>

-----------------------------------------------------------------------------
(* Real numbers.  A real is <<n, d>> with d >= 0, in lowest terms: n/d when *)
(* d > 0, NaN when <<0, 0>> (0/0) and +inf when <<1, 0>>.                   *)

RECURSIVE Gcd(_, _)
Gcd(a, b) == IF b = 0 THEN a ELSE Gcd(b, a % b)

Abs(x) == IF x < 0 THEN -x ELSE x

NaNReal == <<0, 0>>

InfReal == <<1, 0>>

IsNaN(a) == a[2] = 0 /\ a[1] = 0

IsFinite(a) == a[2] > 0

Real(n, d) ==
    IF d = 0 THEN (IF n = 0 THEN NaNReal ELSE InfReal)
    ELSE LET g == Gcd(Abs(n), d) IN <<n \div g, d \div g>>

RealSubSwapped(a, b) ==
    IF IsFinite(a) /\ IsFinite(b)
    THEN Real(b[1] * a[2] - a[1] * b[2], a[2] * b[2])
    ELSE NaNReal

\* a - b in floating point: NaN when either operand is NaN.
RealSub(a, b) ==
    IF IsFinite(a) /\ IsFinite(b)
    THEN Real(a[1] * b[2] - b[1] * a[2], a[2] * b[2])
    ELSE NaNReal

\* a < b in floating point: False when either operand is NaN.
RealLess(a, b) == IsFinite(a) /\ IsFinite(b) /\ a[1] * b[2] < b[1] * a[2]

RealGreater(a, b) == RealLess(b, a)

\* Series.mean(): NaN for an empty series.
Mean(s) == Real(SumSeq(s), Len(s))

\* mean * 100
Times100(a) == IF IsFinite(a) THEN Real(a[1] * 100, a[2]) ELSE a

-----------------------------------------------------------------------------
(* Descriptive statistics (lines 197-212).                                 *)

\* The group key of a row: the value of the column, or the tuple of the values of
\* the columns, the table is grouped by.
KeyOf(r, by) == IF Len(by) = 1 THEN r[by[1]] ELSE [i \in 1..Len(by) |-> r[by[i]]]

\* The values of column 'converted' in the rows whose key is k, in table order.
ConvertedWhere(table, by, k) ==
    LET Sel(r) == KeyOf(r, by) = k IN Column(SelectSeq(table, Sel), "converted")

AggCountOfSuccesses(s) == SumSeq(s)

\* 'count' of agg(['count', 'mean']): the number of values of the group.
AggCount(s) == Len(s)

\* table.groupby(by)['converted'].agg(['count', 'mean']), mean scaled by 100.
GroupByAgg(table, by) ==
    [k \in {KeyOf(table[i], by) : i \in 1..Len(table)} |->
        LET s == ConvertedWhere(table, by, k)
        IN [count |-> AggCount(s), mean |-> Times100(Mean(s))]]

Describe ==
    /\ pc = "describe"
    /\ group_conversion' = GroupByAgg(df_merged, <<"group">>)
    /\ country_conversion' = GroupByAgg(df_merged, <<"country">>)
    /\ group_country_conversion' = GroupByAgg(df_merged, <<"group", "country">>)
    /\ pc' = "tests"
    /\ UNCHANGED <<df, countries_df, control_with_new, treatment_with_old,
                   multi_group_users, df_merged, missing_countries, ran, primary,
                   chi, countries, next_country, interaction_results, power_vars>>

-----------------------------------------------------------------------------
(* The library tests.  A z statistic is kept by its sign and its exact     *)
(* square.  A p-value is kept as the interval <<lo, hi>> of per-mille      *)
(* values it lies in (lo <= 1000 p < hi), cut at 0.01, 0.05 and 0.10; the  *)
(* empty interval <<0, 0>> is NaN.                                         *)

NaNP == <<0, 0>>

\* Squares of the critical values, times 10^4, at the levels 0.01, 0.05, 0.10:
\* of the normal distribution (two-sided and one-sided), and of the chi-square
\* distribution by degrees of freedom.
CriticalSq ==
    [two_sided |-> <<66349, 38415, 27055>>,
     larger |-> <<54119, 27055, 16424>>]

ChiCritical == <<(<<66349, 38415, 27055>>), (<<92103, 59915, 46052>>),
                 (<<113449, 78147, 62514>>)>>

Exceeds(sq, crit) == sq[1] * 10000 > crit * sq[2]

PInterval(sq, crits) ==
    IF Exceeds(sq, crits[1]) THEN <<0, 10>>
    ELSE IF Exceeds(sq, crits[2]) THEN <<10, 50>>
    ELSE IF Exceeds(sq, crits[3]) THEN <<50, 100>>
    ELSE <<100, 1001>>

\* p < level/1000 in floating point: False for NaN.
PBelow(p, level) == p[1] < p[2] /\ p[2] <= level

Sign(x) == IF x > 0 THEN 1 ELSE IF x < 0 THEN -1 ELSE 0

\* proportions_ztest(count=[c1, c2], nobs=[n1, n2], alternative): the difference of
\* the two proportions over the pooled standard error.  A zero nobs or a zero pooled
\* variance divides 0 by 0: the statistic and the p-value are NaN.
ProportionsZTest(c1, c2, n1, n2, alternative) ==
    LET S == c1 + c2
        N == n1 + n2
        D == c1 * n2 - c2 * n1
        V == n1 * n2 * S * (N - S)
        sq == Real(D * D * N, V)
    IN IF V = 0
       THEN [z_stat |-> [sign |-> 0, sq |-> NaNReal], p_value |-> NaNP]
       ELSE [z_stat |-> [sign |-> Sign(D), sq |-> sq],
             p_value |->
                IF alternative = "larger" /\ D <= 0 THEN <<100, 1001>>
                ELSE PInterval(sq, CriticalSq[alternative])]

-----------------------------------------------------------------------------
(* The three hypothesis tests run in the order of the script.              *)

Tests == {"primary", "country", "interaction"}

TestOrder == <<"primary", "country", "interaction">>

\* The script reaches test t after exactly the tests written before it.
InScriptOrder(t) ==
    \E i \in 1..Len(TestOrder) :
        TestOrder[i] = t /\ ran = {TestOrder[j] : j \in 1..(i - 1)}

IsControl(r) == r.group = "control"

IsTreatment(r) == r.group = "treatment"

SigLevel == 50

(* Primary hypothesis (lines 319-336). *)
PrimaryTestBody ==
    LET control_data == Column(SelectSeq(df_merged, IsControl), "converted")
        treatment_data == Column(SelectSeq(df_merged, IsTreatment), "converted")
        count_control == Len(control_data)
        count_treatment == Len(treatment_data)
        successes_control == SumSeq(control_data)
        successes_treatment == SumSeq(treatment_data)
        t == ProportionsZTest(successes_treatment, successes_control,
                              count_treatment, count_control, "larger")
    IN /\ primary' = [control_data |-> control_data,
                      treatment_data |-> treatment_data,
                      count_control |-> count_control,
                      count_treatment |-> count_treatment,
                      successes_control |-> successes_control,
                      successes_treatment |-> successes_treatment,
                      z_stat |-> t.z_stat, p_value |-> t.p_value]
       /\ ran' = ran \cup {"primary"}
       /\ UNCHANGED <<pc, df, countries_df, control_with_new, treatment_with_old,
                      multi_group_users, df_merged, missing_countries,
                      group_conversion, country_conversion,
                      group_country_conversion, chi, countries, next_country,
                      interaction_results, power_vars>>

PrimaryTest == pc = "tests" /\ InScriptOrder("primary") /\ PrimaryTestBody

(* Country differences (lines 357-362). *)

CrosstabByGroup(table) ==
    LET index == Range(Column(table, "group"))
        columns == Range(Column(table, "converted"))
    IN [index |-> index, columns |-> columns,
        cells |-> [k \in index \X columns |->
                     Cardinality({i \in 1..Len(table) :
                        table[i].group = k[1] /\ table[i].converted = k[2]})]]

\* pd.crosstab(country, converted): one row per country value present, one column
\* per converted value present, each cell the number of rows with that pair.
Crosstab(table) ==
    LET index == Range(Column(table, "country"))
        columns == Range(Column(table, "converted"))
    IN [index |-> index, columns |-> columns,
        cells |-> [k \in index \X columns |->
                     Cardinality({i \in 1..Len(table) :
                        table[i].country = k[1] /\ table[i].converted = k[2]})]]

RowSum(ct, c) == SumOver({c} \X ct.columns, ct.cells)

ColSum(ct, o) == SumOver(ct.index \X {o}, ct.cells)

RealAdd(a, b) == Real(a[1] * b[2] + b[1] * a[2], a[2] * b[2])

RECURSIVE RealSum(_, _)
RealSum(S, f) ==
    IF S = {} THEN <<0, 1>>
    ELSE LET x == CHOOSE y \in S : TRUE IN RealAdd(f[x], RealSum(S \ {x}, f))

Min(a, b) == IF a < b THEN a ELSE b

\* stats.chi2_contingency(observed): expected = row sum * column sum / total,
\* dof = (rows - 1)(columns - 1); with dof = 1 each |observed - expected| is reduced
\* by min(0.5, itself) (Yates); with dof = 0 the statistic is 0 and p is 1.
Chi2Contingency(ct) ==
    LET keys == ct.index \X ct.columns
        rows == [c \in ct.index |-> RowSum(ct, c)]
        cols == [o \in ct.columns |-> ColSum(ct, o)]
        N == SumOver(ct.index, rows)
        dof == (Cardinality(ct.index) - 1) * (Cardinality(ct.columns) - 1)
        rc == [k \in keys |-> rows[k[1]] * cols[k[2]]]
        a == [k \in keys |-> Abs(2 * (ct.cells[k] * N - rc[k]))]
        adj == [k \in keys |-> IF dof = 1 THEN a[k] - Min(N, a[k]) ELSE a[k]]
        chi2 == IF dof = 0 THEN <<0, 1>>
                ELSE RealSum(keys, [k \in keys |-> Real(adj[k] * adj[k], 4 * N * rc[k])])
    IN [chi2 |-> chi2,
        p_value_country |-> IF dof = 0 THEN <<100, 1001>>
                            ELSE PInterval(chi2, ChiCritical[dof]),
        dof |-> dof,
        expected |-> [k \in keys |-> Real(rc[k], N)]]

\* The country test as it would be had line 358 named its p-value p_value, the
\* name the primary test uses at line 328.
CountryTestBodySharedName ==
    LET contingency_table == Crosstab(df_merged)
        p == IF contingency_table.index \X contingency_table.columns = {}
             THEN NaNP
             ELSE Chi2Contingency(contingency_table).p_value_country
    IN /\ chi' = [contingency_table |-> contingency_table, raised |-> FALSE,
                  result |-> Chi2Contingency(contingency_table)]
       /\ primary' = IF primary = None THEN [p_value |-> p]
                     ELSE [primary EXCEPT !.p_value = p]
       /\ ran' = ran \cup {"country"}
       /\ UNCHANGED <<pc, df, countries_df, control_with_new, treatment_with_old,
                      multi_group_users, df_merged, missing_countries,
                      group_conversion, country_conversion,
                      group_country_conversion, countries, next_country,
                      interaction_results, power_vars>>

\* chi2_contingency raises ValueError on a table of size 0; an exception ends the
\* script.
CountryTestBody ==
    LET contingency_table == Crosstab(df_merged)
    IN /\ IF contingency_table.index \X contingency_table.columns = {}
          THEN /\ chi' = [contingency_table |-> contingency_table, raised |-> TRUE]
               /\ pc' = "aborted"
          ELSE /\ chi' = [contingency_table |-> contingency_table, raised |-> FALSE,
                          result |-> Chi2Contingency(contingency_table)]
               /\ pc' = pc
       /\ ran' = ran \cup {"country"}
       /\ UNCHANGED <<df, countries_df, control_with_new, treatment_with_old,
                      multi_group_users, df_merged, missing_countries,
                      group_conversion, country_conversion,
                      group_country_conversion, primary, countries, next_country,
                      interaction_results, power_vars>>

CountryTest == pc = "tests" /\ InScriptOrder("country") /\ CountryTestBody

(* Country-specific effects (lines 388-419). *)

SignificantAtTenPercent(p) == PBelow(p, 100)

\* country_p_value < 0.05
Significant(p) == PBelow(p, SigLevel)

InteractionEntry(table, country) ==
    LET InCountry(r) == r.country = country
        country_data == SelectSeq(table, InCountry)
        country_control == Column(SelectSeq(country_data, IsControl), "converted")
        country_treatment == Column(SelectSeq(country_data, IsTreatment), "converted")
        country_control_rate == Mean(country_control)
        country_treatment_rate == Mean(country_treatment)
        t == ProportionsZTest(SumSeq(country_treatment), SumSeq(country_control),
                              Len(country_treatment), Len(country_control),
                              "two_sided")
    IN [control_rate |-> country_control_rate,
        treatment_rate |-> country_treatment_rate,
        difference |-> RealSub(country_treatment_rate, country_control_rate),
        z_stat |-> t.z_stat,
        p_value |-> t.p_value,
        significant |-> Significant(t.p_value)]

\* d[key] = value
DictSet(d, key, value) ==
    [k \in DOMAIN d \cup {key} |-> IF k = key THEN value ELSE d[k]]

InteractionBeginBody ==
    /\ countries' = Unique(Column(df_merged, "country"))
    /\ interaction_results' = <<>>
    /\ next_country' = 1
    /\ pc' = "loop"
    /\ UNCHANGED <<df, countries_df, control_with_new, treatment_with_old,
                   multi_group_users, df_merged, missing_countries,
                   group_conversion, country_conversion, group_country_conversion,
                   ran, primary, chi, power_vars>>

InteractionBegin == pc = "tests" /\ InScriptOrder("interaction") /\ InteractionBeginBody

InteractionIter ==
    /\ pc = "loop"
    /\ next_country <= Len(countries)
    /\ interaction_results' =
          DictSet(interaction_results, countries[next_country],
                  InteractionEntry(df_merged, countries[next_country]))
    /\ next_country' = next_country + 1
    /\ UNCHANGED <<pc, df, countries_df, control_with_new, treatment_with_old,
                   multi_group_users, df_merged, missing_countries,
                   group_conversion, country_conversion, group_country_conversion,
                   ran, primary, chi, countries, power_vars>>

InteractionEnd ==
    /\ pc = "loop"
    /\ next_country > Len(countries)
    /\ ran' = ran \cup {"interaction"}
    /\ pc' = "tests"
    /\ UNCHANGED <<df, countries_df, control_with_new, treatment_with_old,
                   multi_group_users, df_merged, missing_countries,
                   group_conversion, country_conversion, group_country_conversion,
                   primary, chi, countries, next_country, interaction_results,
                   power_vars>>

-----------------------------------------------------------------------------
(* Power analysis (lines 458-475).                                         *)

Alpha == 50

RequiredPower == <<4, 5>>

\* The effect size is not negative and is kept by its exact square:
\* (t - c)^2 / ((c(1 - c) + t(1 - t)) / 2).  A zero denominator gives NaN (0/0)
\* or inf, a NaN rate gives NaN.
EffectSizeSq(c, t) ==
    IF IsFinite(c) /\ IsFinite(t)
    THEN LET delta == t[1] * c[2] - c[1] * t[2]
             w == c[1] * (c[2] - c[1]) * t[2] * t[2]
                  + t[1] * (t[2] - t[1]) * c[2] * c[2]
         IN Real(2 * delta * delta, w)
    ELSE NaNReal

\* TTestIndPower().solve_power(effect_size, nobs1, alpha) is a library function of
\* its arguments whose value the script only compares with 0.8: the values on each
\* side of 0.8, 0.8 itself and NaN.
PowerOutcomes == {NaNReal, <<1, 20>>, <<799, 1000>>, <<4, 5>>, <<801, 1000>>}

PowerNotAboveTarget(power) == ~RealGreater(power, RequiredPower)

\* power < 0.8
PowerBelowTarget(power) == RealLess(power, RequiredPower)

PowerAnalysis ==
    /\ pc = "tests"
    /\ ran = Tests
    /\ \E power \in PowerOutcomes :
         LET control_rate == Mean(primary.control_data)
             treatment_rate == Mean(primary.treatment_data)
             effect_size == EffectSizeSq(control_rate, treatment_rate)
             total_sample == primary.count_control + primary.count_treatment
         IN power_vars' =
               [control_rate |-> control_rate,
                treatment_rate |-> treatment_rate,
                effect_size_sq |-> effect_size,
                total_sample |-> total_sample,
                alpha |-> Alpha,
                nobs1 |-> Real(total_sample, 2),
                power |-> power,
                sufficiently_powered |-> RealGreater(power, RequiredPower),
                min_sample_size |->
                    IF PowerBelowTarget(power)
                    THEN [computed |-> TRUE, effect_size_sq |-> effect_size,
                          power |-> RequiredPower, alpha |-> Alpha]
                    ELSE [computed |-> FALSE]]
    /\ pc' = "done"
    /\ UNCHANGED <<df, countries_df, control_with_new, treatment_with_old,
                   multi_group_users, df_merged, missing_countries,
                   group_conversion, country_conversion, group_country_conversion,
                   ran, primary, chi, countries, next_country, interaction_results>>

-----------------------------------------------------------------------------
(* The hypothesis tests taken in any order: each test is enabled as soon as *)
(* it has not run, whatever the others have done.                           *)

PrimaryTestAnyOrder == pc = "tests" /\ "primary" \notin ran /\ PrimaryTestBody

CountryTestAnyOrder == pc = "tests" /\ "country" \notin ran /\ CountryTestBody

InteractionBeginAnyOrder ==
    pc = "tests" /\ "interaction" \notin ran /\ InteractionBeginBody

-----------------------------------------------------------------------------
Unassigned ==
    /\ pc = "consistency"
    /\ control_with_new = None
    /\ treatment_with_old = None
    /\ multi_group_users = None
    /\ df_merged = None
    /\ missing_countries = None
    /\ group_conversion = None
    /\ country_conversion = None
    /\ group_country_conversion = None
    /\ ran = {}
    /\ primary = None
    /\ chi = None
    /\ countries = None
    /\ next_country = None
    /\ interaction_results = None
    /\ power_vars = None

\* Any two small files: rows with repeated user keys, both arms, both pages.
\* User keys and country codes are only ever compared for equality, so the first
\* row of each file is given the first key and the first code.
Init ==
    /\ \E rows \in SeqsUpTo(RawRows, MaxRows) :
          /\ rows # <<>> => rows[1].user_id = 1
          /\ df = WithIndex(rows)
    /\ \E rows \in SeqsUpTo(CountryRows, MaxCountryRows) :
          /\ rows # <<>> => rows[1].country = "US"
          /\ countries_df = rows
    /\ Unassigned

PageOf(g) == IF g = "control" THEN "old_page" ELSE "new_page"

\* Files of up to max rows that the cleaning steps leave as they are: one row per
\* user key, the page of its arm, one country row per user key.
CleanFiles(max) ==
    /\ \E n \in 0..max :
         \E g \in [1..n -> Groups], o \in [1..n -> Outcomes],
            c \in [1..n -> CountryCodes] :
            /\ df = [i \in 1..n |->
                       [idx |-> i, user_id |-> i, timestamp |-> i, group |-> g[i],
                        landing_page |-> PageOf(g[i]), converted |-> o[i]]]
            /\ countries_df = [i \in 1..n |-> [user_id |-> i, country |-> c[i]]]
    /\ Unassigned

InitClean == CleanFiles(MaxCleanRows)

InitAnyOrder == CleanFiles(MaxOrderRows)

\* Interaction rows whose page is the page of their arm.
AlignedRows ==
    {r \in RawRows : r.landing_page = PageOf(r.group)}

\* Files in which a user key can have several rows, in one arm or in both, every
\* row with the page of its arm, and one country row per user key.
InitRepeats ==
    /\ \E rows \in SeqsUpTo(AlignedRows, MaxRepeatRows) :
          /\ rows # <<>> => rows[1].user_id = 1
          /\ df = WithIndex(rows)
    /\ countries_df = <<[user_id |-> 1, country |-> "US"],
                        [user_id |-> 2, country |-> "UK"]>>
    /\ Unassigned

Next ==
    \/ PageGroupFilter
    \/ MultiGroupRemoval
    \/ Merge
    \/ DropMissingCountries
    \/ Describe
    \/ PrimaryTest
    \/ CountryTest
    \/ InteractionBegin
    \/ InteractionIter
    \/ InteractionEnd
    \/ PowerAnalysis

Spec == Init /\ [][Next]_vars

SpecClean == InitClean /\ [][Next]_vars

NextAnyOrder ==
    \/ PageGroupFilter
    \/ MultiGroupRemoval
    \/ Merge
    \/ DropMissingCountries
    \/ Describe
    \/ PrimaryTestAnyOrder
    \/ CountryTestAnyOrder
    \/ InteractionBeginAnyOrder
    \/ InteractionIter
    \/ InteractionEnd
    \/ PowerAnalysis

SpecAnyOrder == InitAnyOrder /\ [][NextAnyOrder]_vars

SpecRepeats == InitRepeats /\ [][Next]_vars

-----------------------------------------------------------------------------
(* Properties of the cleaning steps.                                       *)

Cleaned == pc \notin {"consistency"}

Deduplicated == pc \notin {"consistency", "multigroup"}

Joined == pc \notin {"consistency", "multigroup", "merge", "dropna"}

Mismatched(r) ==
    \/ r.group = "control" /\ r.landing_page = "new_page"
    \/ r.group = "treatment" /\ r.landing_page = "old_page"

\* C1: after the group/page consistency step, whether its filter ran or was
\* skipped, no row of the cleaned interaction table, and no row of the merged
\* table, pairs control with new_page or treatment with old_page.
C1_NoMismatchSurvives ==
    /\ Cleaned => \A i \in 1..Len(df) : ~Mismatched(df[i])
    /\ pc \notin {"consistency", "multigroup", "merge"} =>
          \A i \in 1..Len(df_merged) : ~Mismatched(df_merged[i])

\* The filter ran, removed a row and kept a row.
C1_Witness ==
    /\ pc = "multigroup"
    /\ control_with_new + treatment_with_old > 0
    /\ Len(df) > 0

\* C2: after the cross-group removal step all rows of one user key carry the same
\* arm, in the cleaned interaction table and in the final joined table.
C2_OneArmPerUser ==
    /\ Deduplicated =>
          \A i, j \in 1..Len(df) :
             df[i].user_id = df[j].user_id => df[i].group = df[j].group
    /\ Joined =>
          \A i, j \in 1..Len(df_merged) :
             df_merged[i].user_id = df_merged[j].user_id =>
                df_merged[i].group = df_merged[j].group

\* A user key was under two arms, and its surviving row reached the joined table.
C2_Witness ==
    /\ pc = "describe"
    /\ multi_group_users > 0
    /\ Len(df_merged) > 0

\* C3: a user key that is under more than one arm in the table the group/page filter
\* produced has exactly one row after the cross-group removal step, and that row is
\* one of its filtered rows with the smallest timestamp among them.
C3_EarliestRowKept ==
    [][pc = "multigroup" =>
          \A u \in UsersInMultipleGroups(df) :
             \E k \in 1..Len(df') :
                /\ \A m \in 1..Len(df') : df'[m].user_id = u <=> m = k
                /\ \E i \in RowsOf(df, u) : df[i] = df'[k]
                /\ \A i \in RowsOf(df, u) : df'[k].timestamp <= df[i].timestamp]_vars

\* The second row of the file was kept because its timestamp is the smaller one.
C3_Witness ==
    /\ pc = "merge"
    /\ multi_group_users = 1
    /\ Len(df) = 1
    /\ df[1].idx = 2
    /\ df[1].timestamp = 1

HasCountryRow(u) == \E k \in 1..Len(countries_df) : countries_df[k].user_id = u

\* C4: every row of the final joined table has a country that is not missing and
\* that the country table gives for the row's user key, and no row of a user key
\* without a country row is in the joined table.
C4_CountryFromTable ==
    Joined =>
       /\ \A i \in 1..Len(df_merged) :
             /\ df_merged[i].country # NaN
             /\ \E k \in 1..Len(countries_df) :
                   /\ countries_df[k].user_id = df_merged[i].user_id
                   /\ countries_df[k].country = df_merged[i].country
       /\ \A i \in 1..Len(df) :
             ~HasCountryRow(df[i].user_id) =>
                \A j \in 1..Len(df_merged) : df_merged[j].user_id # df[i].user_id

\* A row without a country was dropped and a row with a country was kept.
C4_Witness ==
    /\ pc = "describe"
    /\ missing_countries > 0
    /\ Len(df_merged) > 0

\* C5: the joined table never has more rows than the cleaned interaction table.
C5_JoinedNoLargerThanCleaned ==
    pc \notin {"consistency", "multigroup", "merge"} => Len(df_merged) <= Len(df)


-----------------------------------------------------------------------------
(* Properties of the statistics, the tests and the power analysis.         *)

Described == pc \in {"tests", "loop", "done", "aborted"}

RowsOfArm(g) == {i \in 1..Len(df_merged) : df_merged[i].group = g}

CountsOf(agg) == [k \in DOMAIN agg |-> agg[k].count]

\* C6: the per-arm, the per-country and the per-(arm, country) row counts each sum
\* to the number of joined rows, and so do the trials of the primary test and the
\* total sample of the power analysis.
C6_CountsSumToRows ==
    /\ Described =>
          /\ SumOver(DOMAIN group_conversion, CountsOf(group_conversion))
                = Len(df_merged)
          /\ SumOver(DOMAIN country_conversion, CountsOf(country_conversion))
                = Len(df_merged)
          /\ SumOver(DOMAIN group_country_conversion,
                     CountsOf(group_country_conversion)) = Len(df_merged)
    /\ "primary" \in ran =>
          primary.count_control + primary.count_treatment = Len(df_merged)
    /\ pc = "done" => power_vars.total_sample = Len(df_merged)

\* Both arms and two countries are present and the power analysis has run.
C6_Witness ==
    /\ pc = "done"
    /\ Len(df_merged) >= 3
    /\ Cardinality(DOMAIN group_conversion) = 2
    /\ Cardinality(DOMAIN country_conversion) = 2
    /\ Cardinality(DOMAIN group_country_conversion) >= 3

ArmRows(c, g) ==
    {i \in 1..Len(df_merged) : df_merged[i].country = c /\ df_merged[i].group = g}

ArmSuccesses(c, g) == {i \in ArmRows(c, g) : df_merged[i].converted = 1}

\* rate is successes / rows, NaN when there is no row.
IsRate(rate, successes, rows) ==
    IF rows = 0 THEN IsNaN(rate)
    ELSE rate[2] > 0 /\ rate[1] * rows = successes * rate[2]

\* C7: once the per-country loop has finished, the keys of interaction_results are
\* the distinct countries of the joined table; each entry's rates are successes over
\* rows of the arm in that country, its difference is treatment rate minus control
\* rate (NaN when an arm has no row there), and it is significant exactly when its
\* p-value is below 0.05.
C7_InteractionResults ==
    "interaction" \in ran =>
       /\ DOMAIN interaction_results
             = {df_merged[i].country : i \in 1..Len(df_merged)}
       /\ \A c \in DOMAIN interaction_results :
             LET e == interaction_results[c]
                 nc == Cardinality(ArmRows(c, "control"))
                 nt == Cardinality(ArmRows(c, "treatment"))
                 sc == Cardinality(ArmSuccesses(c, "control"))
                 st == Cardinality(ArmSuccesses(c, "treatment"))
             IN /\ IsRate(e.control_rate, sc, nc)
                /\ IsRate(e.treatment_rate, st, nt)
                /\ IF nc = 0 \/ nt = 0 THEN IsNaN(e.difference)
                   ELSE /\ e.difference[2] > 0
                        /\ e.difference[1] * nt * nc
                              = (st * nc - sc * nt) * e.difference[2]
                /\ e.significant <=> (e.p_value[1] < e.p_value[2] /\ e.p_value[2] <= 50)

\* The loop has finished with an entry that is significant.
C7_Witness ==
    /\ "interaction" \in ran
    /\ \E c \in DOMAIN interaction_results :
          /\ interaction_results[c].significant
          /\ interaction_results[c].difference[1] # 0

CountryTestRan == "country" \in ran /\ ~chi.raised

TableShape(columns) ==
    LET ct == chi.contingency_table
    IN /\ ct.columns = columns
       /\ ct.index = {df_merged[i].country : i \in 1..Len(df_merged)}
       /\ DOMAIN ct.cells = ct.index \X ct.columns
       /\ SumOver(DOMAIN ct.cells, ct.cells) = Len(df_merged)

\* C8 as stated: the contingency table of the country test has the 2 columns
\* converted = 0 and converted = 1, one row per distinct country of the joined table,
\* and cells that sum to the number of joined rows.
C8_TwoColumns == CountryTestRan => TableShape({0, 1})

\* C8 as amended: the contingency table has one column per converted value present
\* in the joined table (2 columns exactly when both outcomes occur), one row per
\* distinct country, and cells that sum to the number of joined rows.
C8_ColumnsPresent ==
    CountryTestRan =>
       TableShape({df_merged[i].converted : i \in 1..Len(df_merged)})

\* The test ran on a table of two countries by two outcomes.
C8_Witness ==
    /\ CountryTestRan
    /\ Cardinality(chi.contingency_table.index) = 2
    /\ Cardinality(chi.contingency_table.columns) = 2

Converted(rows) == Cardinality({i \in rows : df_merged[i].converted = 1})

\* What each test that has run has recorded, as a function of the joined table.
RecordedFromJoined ==
    /\ "primary" \in ran =>
          LET c == RowsOfArm("control")
              t == RowsOfArm("treatment")
              z == ProportionsZTest(Converted(t), Converted(c),
                                    Cardinality(t), Cardinality(c), "larger")
          IN /\ primary.count_control = Cardinality(c)
             /\ primary.count_treatment = Cardinality(t)
             /\ primary.successes_control = Converted(c)
             /\ primary.successes_treatment = Converted(t)
             /\ primary.z_stat = z.z_stat
             /\ primary.p_value = z.p_value
    /\ "country" \in ran =>
          /\ chi.contingency_table = Crosstab(df_merged)
          /\ ~chi.raised => chi.result = Chi2Contingency(Crosstab(df_merged))
    /\ "interaction" \in ran =>
          interaction_results =
             [c \in {df_merged[i].country : i \in 1..Len(df_merged)} |->
                InteractionEntry(df_merged, c)]

\* C9: a step of a hypothesis test leaves the joined table as it is and writes the
\* variables of one test only, and whatever the order the tests are taken in, each
\* test that has run has recorded the results the joined table alone determines.
C9_TestsIndependent ==
    /\ [][(pc \in {"tests", "loop"} /\ pc' # "done") =>
             /\ df_merged' = df_merged
             /\ ~(primary' # primary /\ chi' # chi)
             /\ ~(primary' # primary /\ interaction_results' # interaction_results)
             /\ ~(chi' # chi /\ interaction_results' # interaction_results)]_vars
    /\ []RecordedFromJoined

\* The per-country test and the country test have run before the primary test.
C9_Witness ==
    /\ pc = "tests"
    /\ ran = {"interaction", "country"}
    /\ Len(df_merged) >= 2
    /\ Cardinality(DOMAIN interaction_results) = 2

\* C10: when the achieved power is below 0.8 the sample size for a power of 0.8 is
\* computed, with the effect size and the alpha of the achieved power; when the
\* achieved power is 0.8 or more it is not computed.
C10_RequiredSampleWhenUnderpowered ==
    pc = "done" =>
       LET p == power_vars.power
           m == power_vars.min_sample_size
       IN /\ (p[2] > 0 /\ p[1] * 5 < 4 * p[2]) =>
                /\ m.computed
                /\ m.effect_size_sq = power_vars.effect_size_sq
                /\ m.alpha = power_vars.alpha
                /\ m.power = <<4, 5>>
          /\ (p[2] > 0 /\ p[1] * 5 >= 4 * p[2]) => ~m.computed

\* The achieved power of a test with a positive effect size is below 0.8.
C10_Witness ==
    /\ pc = "done"
    /\ power_vars.min_sample_size.computed
    /\ power_vars.effect_size_sq[1] > 0
    /\ power_vars.effect_size_sq[2] > 0
    /\ power_vars.total_sample >= 2

\* C11: the two cleaning steps of the interaction table only remove rows: every row
\* a step leaves is a row it was given, with its index and every field unchanged, and
\* each at most once; and the cross-group removal step removes rows of no user key
\* that is under a single arm in the table the group/page filter produced, also when
\* another user key is under two arms.
C11_OnlyMultiGroupRowsRemoved ==
    [][(pc \in {"consistency", "multigroup"}) =>
          /\ \A k \in 1..Len(df') : \E i \in 1..Len(df) : df[i] = df'[k]
          /\ \A k, m \in 1..Len(df') : df'[k].idx = df'[m].idx => k = m
          /\ (pc = "multigroup" =>
                \A i \in 1..Len(df) :
                   (df[i].user_id \notin UsersInMultipleGroups(df)) =>
                      (\E k \in 1..Len(df') : df'[k] = df[i]))]_vars

\* C12: in the final joined table, the table the descriptive statistics and the
\* hypothesis tests read, no user key is in two rows.
C12_OneRowPerUser ==
    Joined =>
       \A i, j \in 1..Len(df_merged) :
          df_merged[i].user_id = df_merged[j].user_id => i = j

\* C13: for every achieved power the power report answers in exactly one of two
\* ways: either the test is reported as sufficiently powered, or the minimum sample
\* size for a power of 0.8 is computed and reported; also when the power is 0.8.
C13_ReportComplete ==
    pc = "done" =>
       (power_vars.sufficiently_powered <=> ~power_vars.min_sample_size.computed)

====
